---- MODULE Spec2Model ----
(***************************************************************************)
(* Model of captcha_generators/audio_captcha.py (class AudioCaptcha).      *)
(*                                                                         *)
(* Representation choices:                                                 *)
(*  - a byte string is a sequence of integers 0..255;                      *)
(*  - a float sample is an integer count of 1/32768 steps (the value the   *)
(*    decoder's  s / 32768.0  yields exactly); products and quotients of   *)
(*    samples are rounded to that grid;                                    *)
(*  - the standard library's wave reader and writer, base64 and the        *)
(*    pseudo-random generator are modelled by what they do on these        *)
(*    byte strings;                                                        *)
(*  - the speech engine (pyttsx3) is external: each of its calls either    *)
(*    returns or raises, and runAndWait leaves some byte string in the     *)
(*    temporary file.                                                      *)
(***************************************************************************)
EXTENDS Integers, Sequences, FiniteSets, TLC

\* ------------------------------------------------------------------ bounds
NumRequests == 2
NumInstances == 2
MaxLen == 2
\* Resolution of the pseudo-random generator: random() is m / RngRange for
\* an integer m in 0..RngRange-1.
RngRange == 16
MaxEncLen == 2
MaxChannels == 3
MaxWidth == 3
MaxDataLen == 6
MaxSmallLen == 2
MaxExtra == 1
MaxSeed == 1
MaxBufLen == 12
MaxRate == 12

\* -------------------------------------------------------- program constants
TargetRate == 22050
DefaultLength == 5

Requests == 1..NumRequests
Instances == 1..NumInstances
None == "None"

\* -------------------------------------------------------------- generic
Min(a, b) == IF a < b THEN a ELSE b
Max(a, b) == IF a > b THEN a ELSE b

RECURSIVE Concat(_)
Concat(ss) == IF ss = <<>> THEN <<>> ELSE Head(ss) \o Concat(Tail(ss))

Take(s, k) == SubSeq(s, 1, Min(k, Len(s)))
Drop(s, k) == IF k >= Len(s) THEN <<>> ELSE SubSeq(s, k + 1, Len(s))

\* Python's int(x) on a quotient: rounds toward zero.
TruncDiv(a, b) == IF a >= 0 THEN a \div b ELSE -((-a) \div b)

\* ------------------------------------------------------------ byte strings
\* struct '<H' and '<L' (little-endian unsigned), '<h' (signed 16-bit).
LE16(b, pos) == b[pos] + 256 * b[pos + 1]
LE32(b, pos) == b[pos] + 256 * b[pos + 1] + 65536 * b[pos + 2] + 16777216 * b[pos + 3]
Pack16(v) == <<v % 256, (v \div 256) % 256>>
Pack32(v) == <<v % 256, (v \div 256) % 256, (v \div 65536) % 256, (v \div 16777216) % 256>>
Signed16(u) == IF u >= 32768 THEN u - 65536 ELSE u
PackS16(v) == Pack16((v + 65536) % 65536)

RECURSIVE UnsignedLE(_)
UnsignedLE(b) == IF b = <<>> THEN 0 ELSE Head(b) + 256 * UnsignedLE(Tail(b))

RECURSIVE Pow2(_)
Pow2(k) == IF k <= 0 THEN 1 ELSE 2 * Pow2(k - 1)

\* int.from_bytes(b, 'little', signed=True)
SignedLE(b) ==
    IF b = <<>> THEN 0
    ELSE IF b[Len(b)] >= 128 THEN UnsignedLE(b) - Pow2(8 * Len(b)) ELSE UnsignedLE(b)

\* ASCII tags of the RIFF/WAVE container.
TagRIFF == <<82, 73, 70, 70>>
TagWAVE == <<87, 65, 86, 69>>
TagFmt == <<102, 109, 116, 32>>
TagData == <<100, 97, 116, 97>>
WAVE_FORMAT_PCM == 1

\* What wave.open(buffer, 'wb') ... writeframes(packed) leaves in the buffer:
\* the 44-byte canonical header followed by the frames.
WaveWrite(nchannels, sampwidth, framerate, frames) ==
    TagRIFF \o Pack32(36 + Len(frames)) \o TagWAVE
    \o TagFmt \o Pack32(16) \o Pack16(WAVE_FORMAT_PCM) \o Pack16(nchannels)
    \o Pack32(framerate) \o Pack32(nchannels * framerate * sampwidth)
    \o Pack16(nchannels * sampwidth) \o Pack16(sampwidth * 8)
    \o TagData \o Pack32(Len(frames)) \o frames

WaveErr(kind) ==
    [err |-> kind, nchannels |-> 0, sampwidth |-> 0, framerate |-> 0,
     nframes |-> 0, data |-> <<>>]

\* Wave_read._read_fmt_chunk on the body of a 'fmt ' chunk.
ReadFmtChunk(body) ==
    IF Len(body) < 14 THEN WaveErr("EOFError")
    ELSE IF LE16(body, 1) # WAVE_FORMAT_PCM THEN WaveErr("wave.Error")
    ELSE IF Len(body) < 16 THEN WaveErr("EOFError")
    ELSE IF (LE16(body, 15) + 7) \div 8 = 0 THEN WaveErr("wave.Error")
    ELSE IF LE16(body, 3) = 0 THEN WaveErr("wave.Error")
    ELSE [err |-> None, nchannels |-> LE16(body, 3),
          sampwidth |-> (LE16(body, 15) + 7) \div 8,
          framerate |-> LE32(body, 5), nframes |-> 0, data |-> <<>>]

\* The chunk loop of Wave_read.initfp.
\* fmt is WaveErr("no fmt") until a 'fmt ' chunk was read.
RECURSIVE ReadChunks(_, _)
ReadChunks(rest, fmt) ==
    IF Len(rest) < 8 THEN WaveErr("wave.Error")
    ELSE LET name == Take(rest, 4)
             size == LE32(rest, 5)
             body == Take(Drop(rest, 8), size)
             next == Drop(rest, 8 + size + (size % 2))
         IN  IF name = TagFmt
             THEN LET f == ReadFmtChunk(body)
                  IN  IF f.err # None THEN f ELSE ReadChunks(next, f)
             ELSE IF name = TagData
             THEN IF fmt.err # None THEN WaveErr("wave.Error")
                  ELSE [fmt EXCEPT !.nframes = size \div (fmt.nchannels * fmt.sampwidth),
                                   !.data = body]
             ELSE ReadChunks(next, fmt)

\* A faulty variant of WaveOpen: a header cut short or without the RIFF tag
\* is read as an empty 16-bit mono file.
WaveOpenLenient(b) ==
    IF Len(b) < 8 \/ Take(b, 4) # TagRIFF
    THEN [err |-> None, nchannels |-> 1, sampwidth |-> 2, framerate |-> TargetRate,
          nframes |-> 0, data |-> <<>>]
    ELSE LET body == Take(Drop(b, 8), LE32(b, 5))
         IN  IF Take(body, 4) # TagWAVE THEN WaveErr("wave.Error")
             ELSE ReadChunks(Drop(body, 4), WaveErr("no fmt"))

\* wave.open(io.BytesIO(b), 'rb'): the parsed header and the bytes the data
\* chunk holds, or the exception the reader raises.
WaveOpen(b) ==
    IF Len(b) < 8 THEN WaveErr("EOFError")
    ELSE IF Take(b, 4) # TagRIFF THEN WaveErr("wave.Error")
    ELSE LET body == Take(Drop(b, 8), LE32(b, 5))
         IN  IF Take(body, 4) # TagWAVE THEN WaveErr("wave.Error")
             ELSE ReadChunks(Drop(body, 4), WaveErr("no fmt"))

\* Wave_read.readframes(n): at most n frames of what the data chunk holds.
ReadFrames(w, n) == Take(w.data, n * w.nchannels * w.sampwidth)

\* ------------------------------------------------------------- the decoder
\* A faulty variant of Unpack16: the values are read as unsigned.
Unpack16Unsigned(raw) == [i \in 1..(Len(raw) \div 2) |-> LE16(raw, 2 * i - 1)]

\* struct.unpack('<{k}h', raw): k signed 16-bit values.
Unpack16(raw) == [i \in 1..(Len(raw) \div 2) |-> Signed16(LE16(raw, 2 * i - 1))]

\* Lines 94-97: one value per sampwidth bytes (the last slice may be short),
\* arithmetically shifted right by 8 * (sampwidth - 2) bits.
UnpackWide(raw, sampwidth) ==
    [i \in 1..((Len(raw) + sampwidth - 1) \div sampwidth) |->
        SignedLE(SubSeq(raw, (i - 1) * sampwidth + 1, Min(i * sampwidth, Len(raw))))
            \div Pow2(8 * (sampwidth - 2))]

\* Lines 100-107: average consecutive pairs with Python's floor division.
Downmix(samples) ==
    [j \in 1..((Len(samples) + 1) \div 2) |->
        IF 2 * j <= Len(samples)
        THEN (samples[2 * j - 1] + samples[2 * j]) \div 2
        ELSE samples[2 * j - 1]]

DecodeFail(kind) == [err |-> kind, samples |-> <<>>, rate |-> 0]

\* AudioCaptcha._wav_to_samples: (float_samples, framerate), or the exception
\* that leaves it.  A float sample s / 32768.0 is held as the integer s.
WavToSamples(wav_bytes) ==
    LET w == WaveOpen(wav_bytes)
        raw == ReadFrames(w, w.nframes)
    IN  IF w.err # None THEN DecodeFail(w.err)
        ELSE IF w.sampwidth = 2 /\ Len(raw) % 2 # 0 THEN DecodeFail("struct.error")
        ELSE LET samples == IF w.sampwidth = 2 THEN Unpack16(raw)
                            ELSE IF w.sampwidth = 1
                            THEN [i \in 1..Len(raw) |-> (raw[i] - 128) * 256]
                            ELSE UnpackWide(raw, w.sampwidth)
                 mono == IF w.nchannels = 2 THEN Downmix(samples) ELSE samples
             IN  [err |-> None, samples |-> mono, rate |-> w.framerate]

\* ----------------------------------------------- the random module's source
\* The process-wide generator behind random.random(): its state is a position
\* c in a fixed stream; the k-th draw from state c is Mix(c + k) / RngRange.
RngStates == 0..(RngRange - 1)
Mix(c) == (7 * c + 3) % RngRange
Advance(c, k) == (c + k) % RngRange

\* random.uniform(a, b) = a + (b - a) * random()
Uniform(a, b, m) == a + TruncDiv((b - a) * m, RngRange)
\* random.randint(a, b): a + floor(random() * (b - a + 1))
RandInt(a, b, m) == a + (m * (b - a + 1)) \div RngRange
\* random.choices(population, k=1): population[floor(random() * n)]
Choice(population, m) == population[(m * Len(population)) \div RngRange + 1]

\* ---------------------------------------------------- text and spoken phrase
\* string.digits (line 36)
Characters == <<"0", "1", "2", "3", "4", "5", "6", "7", "8", "9">>

\* A faulty variant of GenerateText: one character too many.
GenerateTextOneMore(length, c) ==
    [i \in 1..(length + 1) |-> Choice(Characters, Mix(c + i - 1))]

\* AudioCaptcha.generate_text: ''.join(random.choices(self.characters, k=length))
\* drawn from generator state c; a negative k yields the empty string.
GenerateText(length, c) == [i \in 1..length |-> Choice(Characters, Mix(c + i - 1))]

CHAR_TO_WORD ==
    [ch \in {"0", "1", "2", "3", "4", "5", "6", "7", "8", "9"} |->
        CASE ch = "0" -> "zero" [] ch = "1" -> "one" [] ch = "2" -> "two"
          [] ch = "3" -> "three" [] ch = "4" -> "four" [] ch = "5" -> "five"
          [] ch = "6" -> "six" [] ch = "7" -> "seven" [] ch = "8" -> "eight"
          [] ch = "9" -> "nine"]

PauseToken == " .... "

\* Lines 185-191: the words of the text joined by the pause token.
SpokenText(text) ==
    [i \in 1..(IF Len(text) = 0 THEN 0 ELSE 2 * Len(text) - 1) |->
        IF i % 2 = 0 THEN PauseToken
        ELSE LET ch == text[(i + 1) \div 2]
             IN  IF ch \in DOMAIN CHAR_TO_WORD THEN CHAR_TO_WORD[ch] ELSE ch]

\* ------------------------------------------------- IEEE-754 double arithmetic
\* Python's float is a binary64: 53 significant bits, round to nearest even.
\* A non-negative double is [m, e], the value m * 2^e, with m a natural number
\* held in four limbs (least significant first) of LimbBits bits each.
MantissaBits == 53
LimbBits == 20
LimbBase == Pow2(LimbBits)

BigZero == <<0, 0, 0, 0>>
BigOf(n) == <<n % LimbBase, n \div LimbBase, 0, 0>>

Carry(a) ==
    LET b2 == a[2] + (a[1] \div LimbBase)
        b3 == a[3] + (b2 \div LimbBase)
        b4 == a[4] + (b3 \div LimbBase)
    IN  <<a[1] % LimbBase, b2 % LimbBase, b3 % LimbBase, b4>>

BigAdd(a, b) == Carry([i \in 1..4 |-> a[i] + b[i]])
BigSub(a, b) == Carry([i \in 1..4 |-> a[i] - b[i]])
BigDouble(a) == Carry([i \in 1..4 |-> 2 * a[i]])
BigMulSmall(a, k) == Carry([i \in 1..4 |-> k * a[i]])
BigHalf(a) ==
    <<(a[1] + (a[2] % 2) * LimbBase) \div 2, (a[2] + (a[3] % 2) * LimbBase) \div 2,
      (a[3] + (a[4] % 2) * LimbBase) \div 2, a[4] \div 2>>
BigGE(a, b) ==
    IF a[4] # b[4] THEN a[4] > b[4]
    ELSE IF a[3] # b[3] THEN a[3] > b[3]
    ELSE IF a[2] # b[2] THEN a[2] > b[2]
    ELSE a[1] >= b[1]

RECURSIVE BitLen(_)
BitLen(x) == IF x = 0 THEN 0 ELSE 1 + BitLen(x \div 2)
BigBitLen(a) ==
    IF a[4] # 0 THEN 3 * LimbBits + BitLen(a[4])
    ELSE IF a[3] # 0 THEN 2 * LimbBits + BitLen(a[3])
    ELSE IF a[2] # 0 THEN LimbBits + BitLen(a[2])
    ELSE BitLen(a[1])
BigToInt(a) == a[1] + LimbBase * a[2]

\* a * 2^k and floor(a / 2^k), by whole limbs and then by bits.
BigShiftLeft(a, k) ==
    LET j == k \div LimbBits
        b == k % LimbBits
        limbs == [i \in 1..4 |-> IF i - j >= 1 THEN a[i - j] ELSE 0]
    IN  BigMulSmall(BigMulSmall(limbs, Pow2(b \div 2)), Pow2(b - b \div 2))
BigShiftRight(a, k) ==
    LET j == k \div LimbBits
        b == k % LimbBits
        limbs == [i \in 1..4 |-> IF i + j <= 4 THEN a[i + j] ELSE 0]
    IN  [i \in 1..4 |->
            limbs[i] \div Pow2(b)
            + (IF i < 4 THEN (limbs[i + 1] % Pow2(b)) * Pow2(LimbBits - b) ELSE 0)]

\* The one element of a singleton set.
The(S) == CHOOSE y \in S : TRUE

\* Round m * 2^e (plus a non-zero tail below it when sticky) to 53 bits,
\* ties to even.
RoundKept(m, e, sticky, k, kept) ==
    LET rem == BigSub(m, BigShiftLeft(kept, k))
        half == BigShiftLeft(BigOf(1), k - 1)
        up == IF rem = half THEN sticky \/ kept[1] % 2 = 1 ELSE BigGE(rem, half)
    IN  [m |-> IF up THEN BigAdd(kept, BigOf(1)) ELSE kept, e |-> e + k]
RoundDouble(m, e, sticky) ==
    IF BigBitLen(m) <= MantissaBits THEN [m |-> m, e |-> e]
    ELSE The({RoundKept(m, e, sticky, k, BigShiftRight(m, k)) :
                 k \in {BigBitLen(m) - MantissaBits}})

\* One step of binary long division by d: the next quotient bit is shifted
\* into q, r is the remainder.
DivStep(q, r, d) ==
    The({IF BigGE(r2, d)
         THEN [q |-> BigAdd(BigDouble(q), BigOf(1)), r |-> BigSub(r2, d)]
         ELSE [q |-> BigDouble(q), r |-> r2] : r2 \in {BigDouble(r)}})
RECURSIVE LongDivide(_, _, _)
LongDivide(qr, d, bits) ==
    IF bits = 0 THEN qr
    ELSE The({LongDivide(step, d, bits - 1) : step \in {DivStep(qr.q, qr.r, d)}})

\* n / d for d <= n < 2d, as 54 quotient bits and whether a remainder is left,
\* scaled by 2^e and rounded.  The 53 steps are taken in three runs.
DivideRound(qr, d, e) ==
    The({RoundDouble(q3.q, e, q3.r # BigZero) :
            q3 \in {LongDivide(qr, d, MantissaBits - 2 * LimbBits)}})
DivideMore(qr, d, e) ==
    The({DivideRound(q2, d, e) : q2 \in {LongDivide(qr, d, LimbBits)}})
DivideAligned(n, d, e) ==
    The({DivideMore(q1, d, e) :
            q1 \in {LongDivide([q |-> BigOf(1), r |-> BigSub(n, d)], d, LimbBits)}})

\* x / y for doubles x, y with y # 0, correctly rounded.  With lx and ly the
\* bit lengths of the mantissas, the shorter one is shifted to the other's
\* length, and the numerator once more when it is still the smaller.
FDivBits(x, y, lx, ly) ==
    The({IF BigGE(n0, d0) THEN DivideAligned(n0, d0, x.e - y.e + lx - ly - MantissaBits)
         ELSE DivideAligned(BigDouble(n0), d0, x.e - y.e + lx - ly - 1 - MantissaBits) :
            n0 \in {BigShiftLeft(x.m, Max(0, ly - lx))},
            d0 \in {BigShiftLeft(y.m, Max(0, lx - ly))}})
FDiv(x, y) ==
    IF x.m = BigZero THEN [m |-> BigZero, e |-> 0]
    ELSE The({FDivBits(xv, yv, BigBitLen(xv.m), BigBitLen(yv.m)) : xv \in {x}, yv \in {y}})

FOfInt(n) == [m |-> BigOf(n), e |-> 0]
\* i * x for an int i >= 0 and a double x, correctly rounded.
FMulInt(i, x) == RoundDouble(BigMulSmall(x.m, i), x.e, FALSE)
\* int(x): the integer part.
FTrunc(x) ==
    IF x.e >= 0 THEN BigToInt(BigShiftLeft(x.m, x.e))
    ELSE BigToInt(BigShiftRight(x.m, -x.e))
FScale(x, k) == [m |-> x.m, e |-> x.e + k]

\* ------------------------------------------------------------ the resampler
SampleOne == 32768
FracBits == 15

\* Line 118: ratio = from_rate / to_rate
Ratio(from_rate, to_rate) == FDiv(FOfInt(from_rate), FOfInt(to_rate))
\* Line 119: new_length = int(len(samples) / ratio)
NewLength(len, ratio) == FTrunc(FDiv(FOfInt(len), ratio))
\* Line 122: src_idx = i * ratio
SrcIdx(i, ratio) == FMulInt(i, ratio)
\* Line 124: frac = src_idx - idx, in 1/32768 steps
Frac(src_idx) == FTrunc(FScale(src_idx, FracBits)) - FTrunc(src_idx) * SampleOne

\* A faulty variant of ReadPositions: the first guard is off by one.
ReadPositionsPastEnd(idx, len) ==
    IF idx + 1 <= len THEN {idx, idx + 1}
    ELSE IF idx < len THEN {idx}
    ELSE {}

\* Lines 125-128: the 0-based source positions read for source index idx.
ReadPositions(idx, len) ==
    IF idx + 1 < len THEN {idx, idx + 1}
    ELSE IF idx < len THEN {idx}
    ELSE {}

\* Lines 123-128: the value of the output sample at source position src_idx.
Interpolate(samples, src_idx) ==
    The({IF idx + 1 < Len(samples)
         THEN TruncDiv(samples[idx + 1] * (SampleOne - Frac(src_idx))
                       + samples[idx + 2] * Frac(src_idx), SampleOne)
         ELSE IF idx < Len(samples) THEN samples[idx + 1] ELSE 0 :
            idx \in {FTrunc(src_idx)}})

\* Lines 119-130 for a computed ratio: the new samples and, per output index,
\* the source positions read.
ResampleBy(samples, ratio) ==
    The({[err |-> None,
          samples |-> [k \in 1..new_length |->
                          The({Interpolate(samples, src) : src \in {SrcIdx(k - 1, ratio)}})],
          reads |-> [k \in 1..new_length |->
                        ReadPositions(FTrunc(SrcIdx(k - 1, ratio)), Len(samples))]] :
            new_length \in {NewLength(Len(samples), ratio)}})

\* A faulty variant of Resample: for equal rates it returns the (empty)
\* output list instead of the input.
ResampleReturnsOutput(samples, from_rate, to_rate) ==
    IF from_rate = to_rate THEN [err |-> None, samples |-> <<>>, reads |-> <<>>]
    ELSE The({ResampleBy(samples, ratio) : ratio \in {Ratio(from_rate, to_rate)}})

\* AudioCaptcha._resample, for rates >= 0; a zero rate that is divided by
\* raises ZeroDivisionError.
Resample(samples, from_rate, to_rate) ==
    IF from_rate = to_rate THEN [err |-> None, samples |-> samples, reads |-> <<>>]
    ELSE IF to_rate = 0 \/ from_rate = 0
    THEN [err |-> "ZeroDivisionError", samples |-> <<>>, reads |-> <<>>]
    ELSE The({ResampleBy(samples, ratio) : ratio \in {Ratio(from_rate, to_rate)}})

\* -------------------------------------------------------------- distortion
\* A real parameter p/q in 1/32768 steps.
Q15(p, q) == (p * SampleOne) \div q

\* math.sin(2 * pi * freq * t) for t = i / sample_rate, in 1/32768 steps: the
\* phase in 1/4096 turns, and a parabola on each half turn.
Sin15(freq, i, sample_rate) ==
    LET phase == ((freq * i * 4096) \div sample_rate) % 4096
        h == phase % 2048
        y == (h * (2048 - h)) \div 32
    IN  IF phase < 2048 THEN y ELSE -y

\* Lines 137-139: white noise.  Each pass returns the samples and the
\* generator state it leaves.
WhiteNoise(samples, c) ==
    LET noise_vol == Uniform(Q15(2, 100), Q15(6, 100), Mix(c))
    IN  [samples |-> [i \in 1..Len(samples) |->
                         samples[i] + Uniform(-noise_vol, noise_vol, Mix(c + i))],
         c |-> Advance(c, 1 + Len(samples))]

\* Lines 142-146: low-frequency hum.
Hum(samples, sample_rate, c) ==
    LET hum_freq == Uniform(45, 65, Mix(c))
        hum_vol == Uniform(Q15(2, 100), Q15(5, 100), Mix(c + 1))
    IN  [samples |-> [i \in 1..Len(samples) |->
                         samples[i]
                         + TruncDiv(hum_vol * Sin15(hum_freq, i - 1, sample_rate),
                                    SampleOne)],
         c |-> Advance(c, 2)]

\* Lines 149-151: the bounds of the crackle draws.
CrackleMargin == 500
BurstMin == 80
BurstMax == 300
BurstsMin == 3
BurstsMax == 8

\* A faulty variant of BurstRange: the range is not cut at the end of the list.
BurstRangeUnclipped(start, length, n) == start..(start + length - 1)

\* Line 153: range(start, min(start + length, n)), as 0-based indices.
BurstRange(start, length, n) == start..(Min(start + length, n) - 1)

\* Lines 152-154: one burst.  It adds a draw to samples[i] for each i of the
\* range in turn; an index outside the list raises IndexError at that point.
CrackleBurst(samples, start, length, c) ==
    LET n == Len(samples)
        range == BurstRange(start, length, n)
        crackle_vol == Uniform(Q15(3, 100), Q15(8, 100), Mix(c))
        inside == {i \in range : i < n}
    IN  [samples |-> [k \in 1..n |->
                         IF (k - 1) \in inside
                         THEN samples[k]
                              + Uniform(-crackle_vol, crackle_vol, Mix(c + k - start))
                         ELSE samples[k]],
         touched |-> IF inside = range THEN range ELSE inside \cup {n},
         err |-> IF inside = range THEN None ELSE "IndexError",
         c |-> Advance(c, 1 + Cardinality(inside))]

\* Lines 149-154: `left` more bursts from generator state c, each drawing its
\* start and length; touched collects the indices written so far.
RECURSIVE CrackleBursts(_, _, _, _)
CrackleBursts(samples, c, left, touched) ==
    IF left = 0 THEN [samples |-> samples, c |-> c, touched |-> touched, err |-> None]
    ELSE LET start == RandInt(0, Max(0, Len(samples) - CrackleMargin), Mix(c))
             length == RandInt(BurstMin, BurstMax, Mix(c + 1))
             b == CrackleBurst(samples, start, length, Advance(c, 2))
         IN  IF b.err # None
             THEN [samples |-> b.samples, c |-> b.c,
                   touched |-> touched \cup b.touched, err |-> b.err]
             ELSE CrackleBursts(b.samples, b.c, left - 1, touched \cup b.touched)

Crackle(samples, c) ==
    CrackleBursts(samples, Advance(c, 1), RandInt(BurstsMin, BurstsMax, Mix(c)), {})

\* Lines 157-161: warble.
Warble(samples, sample_rate, c) ==
    LET warble_freq == Uniform(2, 4, Mix(c))
        warble_depth == Uniform(Q15(3, 1000), Q15(8, 1000), Mix(c + 1))
    IN  [samples |-> [i \in 1..Len(samples) |->
                         TruncDiv(samples[i]
                                  * (SampleOne
                                     + TruncDiv(warble_depth
                                                * Sin15(warble_freq, i - 1, sample_rate),
                                                SampleOne)),
                                  SampleOne)],
         c |-> Advance(c, 2)]

\* ------------------------------------------------------------- the encoder
QuantScale == 32767

\* A faulty variant of Quantize: the sample is not clamped.
QuantizeUnclamped(s) == TruncDiv(s * QuantScale, SampleOne)

\* Lines 175-176: clamped = max(-1.0, min(1.0, s)); int(clamped * 32767)
Quantize(s) == TruncDiv(Max(-SampleOne, Min(SampleOne, s)) * QuantScale, SampleOne)

\* struct.pack('<h', v) accepts -32768..32767 only.
FitsInt16(v) == -32768 <= v /\ v <= 32767

\* AudioCaptcha._samples_to_wav: the container bytes, or struct.error.
SamplesToWav(samples, sample_rate) ==
    LET q == [i \in 1..Len(samples) |-> Quantize(samples[i])]
        packed == [j \in 1..(2 * Len(samples)) |-> PackS16(q[(j + 1) \div 2])[2 - (j % 2)]]
    IN  IF \E i \in 1..Len(q) : ~FitsInt16(q[i])
        THEN [err |-> "struct.error", bytes |-> <<>>]
        ELSE [err |-> None, bytes |-> WaveWrite(1, 2, sample_rate, packed)]

\* ----------------------------------------------------------------- base64
B64Alphabet ==
    <<"A", "B", "C", "D", "E", "F", "G", "H", "I", "J", "K", "L", "M", "N", "O", "P",
      "Q", "R", "S", "T", "U", "V", "W", "X", "Y", "Z", "a", "b", "c", "d", "e", "f",
      "g", "h", "i", "j", "k", "l", "m", "n", "o", "p", "q", "r", "s", "t", "u", "v",
      "w", "x", "y", "z", "0", "1", "2", "3", "4", "5", "6", "7", "8", "9", "+", "/">>

\* base64.b64encode(b).decode('utf-8'): four characters per three bytes, the
\* last group padded with "=".
B64Encode(b) ==
    LET byte(i) == IF i <= Len(b) THEN b[i] ELSE 0
        group(g) == byte(3 * g - 2) * 65536 + byte(3 * g - 1) * 256 + byte(3 * g)
        sextet(g, k) == (group(g) \div Pow2(6 * (4 - k))) % 64
    IN  [j \in 1..(4 * ((Len(b) + 2) \div 3)) |->
            LET g == (j + 3) \div 4
                k == j - 4 * (g - 1)
            IN  IF 3 * (g - 1) + k - 1 > Len(b) THEN "="
                ELSE B64Alphabet[sextet(g, k) + 1]]

DataUriPrefix == "data:audio/wav;base64,"

\* ------------------------------------------------------------- the pipeline
VARIABLES
    lock,       \* lock[i]: the request holding self._lock of instance i, or 0
    req,        \* req[r]: the locals and position of request r
    files,      \* files[r]: <<bytes>> when r's temporary file exists, else <<>>
    rng,        \* state of the process-wide random generator
    call,       \* the function a single-function run applies
    arg,        \* its inputs
    ret         \* what it returned

vars == <<lock, req, files, rng, call, arg, ret>>
pipeVars == <<lock, req, files, rng>>
callVars == <<call, arg, ret>>

Stages == <<"ComposePhrase", "Synthesize", "Decode", "Resample", "Distort",
            "Encode", "Package">>

NewRequest ==
    [pc |-> "idle", inst |-> 0, length |-> 0, text |-> <<>>, spoken |-> <<>>,
     pending |-> None, wav |-> <<>>, samples |-> <<>>, rate |-> 0,
     encoded |-> <<>>, result |-> <<>>, err |-> None, stages |-> <<>>,
     unlinkFailed |-> FALSE]

\* A stage raised: the exception leaves generate_audio and generate, which
\* catch nothing.
Fail(r, kind) == [req EXCEPT ![r].pc = "failed", ![r].err = kind]
Enter(rq, stage) == [rq EXCEPT !.stages = Append(@, stage)]

\* A faulty variant of Raise: the error is noted and the request goes on.
RaiseAndGoOn(rq, stage, kind) == [Enter(rq, stage) EXCEPT !.err = kind]

\* generate_audio and generate catch nothing: the exception a stage raises
\* ends the request.
Raise(rq, stage, kind) == [Enter(rq, stage) EXCEPT !.pc = "failed", !.err = kind]

\* A faulty variant of WithExit: the lock stays held.
WithExitKeep(r) == lock

\* Line 48: what `with self._lock` does to the lock on leaving the block, by
\* return or by exception.
WithExit(r) == [lock EXCEPT ![req[r].inst] = 0]

\* AudioCaptcha.generate, line 212.
Start(r, length) ==
    /\ req[r].pc = "idle"
    /\ req' = [req EXCEPT ![r].pc = "compose", ![r].length = length,
                          ![r].text = GenerateText(length, rng)]
    /\ rng' = Advance(rng, Max(length, 0))
    /\ UNCHANGED <<lock, files, callVars>>

\* generate_audio, lines 185-191.
Compose(r) ==
    /\ req[r].pc = "compose"
    /\ req' = [req EXCEPT ![r] = [Enter(@, "ComposePhrase") EXCEPT
                                     !.pc = "mktemp", !.spoken = SpokenText(req[r].text)]]
    /\ UNCHANGED <<lock, files, rng, callVars>>

\* _generate_speech_wav, line 45: tempfile.mktemp names a fresh path (no two
\* requests share one) and creates nothing.
MkTemp(r) ==
    /\ req[r].pc = "mktemp"
    /\ req' = [req EXCEPT ![r] = [Enter(@, "Synthesize") EXCEPT !.pc = "acquire"]]
    /\ UNCHANGED <<lock, files, rng, callVars>>

\* Line 48: entering `with self._lock` blocks until the instance's lock is free.
Acquire(r) ==
    /\ req[r].pc = "acquire"
    /\ lock[req[r].inst] = 0
    /\ lock' = [lock EXCEPT ![req[r].inst] = r]
    /\ req' = [req EXCEPT ![r].pc = "init"]
    /\ UNCHANGED <<files, rng, callVars>>

\* Lines 49-59: pyttsx3.init(), the rate draw, and a voice draw when the
\* engine offers more than one voice.
EngineInit(r, voices) ==
    /\ req[r].pc = "init"
    /\ req' = [req EXCEPT ![r].pc = "speak"]
    /\ rng' = Advance(rng, IF voices > 1 THEN 2 ELSE 1)
    /\ UNCHANGED <<lock, files, callVars>>

\* Lines 61-62: save_to_file and runAndWait return; written is <<bytes>> for
\* what the engine left in the file, or <<>> when it wrote none.
EngineSpeak(r, written) ==
    /\ req[r].pc = "speak"
    /\ req' = [req EXCEPT ![r].pc = "stop"]
    /\ files' = [files EXCEPT ![r] = written]
    /\ UNCHANGED <<lock, rng, callVars>>

\* Line 63 and the end of the with block.
EngineStop(r) ==
    /\ req[r].pc = "stop"
    /\ lock' = WithExit(r)
    /\ req' = [req EXCEPT ![r].pc = "read"]
    /\ UNCHANGED <<files, rng, callVars>>

\* Any engine call of lines 49-63 raises; a failing runAndWait may have left
\* a (here: empty) file behind.
EngineRaise(r, partial) ==
    /\ req[r].pc \in {"init", "speak", "stop"}
    /\ lock' = WithExit(r)
    /\ req' = [req EXCEPT ![r].pc = "finally", ![r].pending = "EngineError"]
    /\ files' = IF partial /\ req[r].pc = "speak"
                THEN [files EXCEPT ![r] = <<(<<>>)>>] ELSE files
    /\ UNCHANGED <<rng, callVars>>

\* Lines 66-69: open and read the temporary file.
ReadFile(r, ok) ==
    /\ req[r].pc = "read"
    /\ req' = [req EXCEPT ![r] =
                  IF files[r] = <<>> THEN [@ EXCEPT !.pc = "finally",
                                                    !.pending = "FileNotFoundError"]
                  ELSE IF ~ok THEN [@ EXCEPT !.pc = "finally", !.pending = "OSError(read)"]
                  ELSE [@ EXCEPT !.pc = "finally", !.wav = files[r][1]]]
    /\ UNCHANGED <<lock, files, rng, callVars>>

\* A faulty variant of Unlink: the file is removed only when nothing was raised.
UnlinkOnSuccess(r, unlinked) ==
    IF files[r] # <<>> /\ unlinked /\ req[r].pending = None
    THEN [files EXCEPT ![r] = <<>>] ELSE files

\* Lines 71-75: the file system after the finally block; unlinked says
\* whether os.unlink succeeded (its OSError is passed over).
Unlink(r, unlinked) ==
    IF files[r] # <<>> /\ unlinked THEN [files EXCEPT ![r] = <<>>] ELSE files

\* Lines 70-75: the finally block.  Then the function returns wav_bytes or
\* the pending exception goes on.
Finally(r, unlinked) ==
    /\ req[r].pc = "finally"
    /\ files' = Unlink(r, unlinked)
    /\ req' = [req EXCEPT ![r] =
                  [@ EXCEPT !.unlinkFailed = files[r] # <<>> /\ ~unlinked,
                            !.pc = IF req[r].pending = None THEN "decode" ELSE "failed",
                            !.err = req[r].pending]]
    /\ UNCHANGED <<lock, rng, callVars>>

\* generate_audio, line 197.
Decode(r) ==
    /\ req[r].pc = "decode"
    /\ LET d == WavToSamples(req[r].wav)
       IN  req' = [req EXCEPT ![r] =
                      IF d.err # None
                      THEN Raise(@, "Decode", d.err)
                      ELSE [Enter(@, "Decode") EXCEPT !.pc = "resample",
                                !.samples = d.samples, !.rate = d.rate]]
    /\ UNCHANGED <<lock, files, rng, callVars>>

\* Lines 200-202: _resample is called only when the rates differ.
ResampleStep(r) ==
    /\ req[r].pc = "resample"
    /\ LET res == Resample(req[r].samples, req[r].rate, TargetRate)
       IN  req' = [req EXCEPT ![r] =
                      IF @.rate = TargetRate THEN [@ EXCEPT !.pc = "white"]
                      ELSE IF res.err # None
                      THEN Raise(@, "Resample", res.err)
                      ELSE [Enter(@, "Resample") EXCEPT !.pc = "white",
                                !.samples = res.samples]]
    /\ UNCHANGED <<lock, files, rng, callVars>>

\* Line 205, _add_noise: its four passes, each drawing from the shared
\* generator.
WhiteStep(r) ==
    /\ req[r].pc = "white"
    /\ LET p == WhiteNoise(req[r].samples, rng)
       IN  /\ req' = [req EXCEPT ![r] = [Enter(@, "Distort") EXCEPT
                                            !.pc = "hum", !.samples = p.samples]]
           /\ rng' = p.c
    /\ UNCHANGED <<lock, files, callVars>>

HumStep(r) ==
    /\ req[r].pc = "hum"
    /\ LET p == Hum(req[r].samples, TargetRate, rng)
       IN  /\ req' = [req EXCEPT ![r].pc = "crackle", ![r].samples = p.samples]
           /\ rng' = p.c
    /\ UNCHANGED <<lock, files, callVars>>

CrackleStep(r) ==
    /\ req[r].pc = "crackle"
    /\ LET p == Crackle(req[r].samples, rng)
       IN  /\ req' = IF p.err # None THEN Fail(r, p.err)
                     ELSE [req EXCEPT ![r].pc = "warble", ![r].samples = p.samples]
           /\ rng' = p.c
    /\ UNCHANGED <<lock, files, callVars>>

WarbleStep(r) ==
    /\ req[r].pc = "warble"
    /\ LET p == Warble(req[r].samples, TargetRate, rng)
       IN  /\ req' = [req EXCEPT ![r].pc = "encode", ![r].samples = p.samples]
           /\ rng' = p.c
    /\ UNCHANGED <<lock, files, callVars>>

\* Line 208.
Encode(r) ==
    /\ req[r].pc = "encode"
    /\ LET e == SamplesToWav(req[r].samples, TargetRate)
       IN  req' = [req EXCEPT ![r] =
                      IF e.err # None
                      THEN Raise(@, "Encode", e.err)
                      ELSE [Enter(@, "Encode") EXCEPT !.pc = "package",
                                !.encoded = e.bytes]]
    /\ UNCHANGED <<lock, files, rng, callVars>>

\* generate, lines 215-220: the returned dict.
Package(r) ==
    /\ req[r].pc = "package"
    /\ req' = [req EXCEPT ![r] =
                  [Enter(@, "Package") EXCEPT
                      !.pc = "done",
                      !.result = <<[text |-> req[r].text,
                                    audio |-> <<DataUriPrefix>> \o B64Encode(req[r].encoded)]>>]]
    /\ UNCHANGED <<lock, files, rng, callVars>>

\* ------------------------------------------------------ what the engine writes
\* Six bytes of frame data, and the containers the engine may leave behind:
\* PCM files of several channel counts, widths and rates, and files cut short.
FrameBytes == <<0, 64, 255, 127, 1, 128>>
CanonicalWav == WaveWrite(1, 2, TargetRate, FrameBytes)
HeaderLen == 44
HeaderCuts == {0, 7, 20, HeaderLen - 1}
\* A header whose RIFF tag or whose format tag is wrong.
BadTags ==
    {[CanonicalWav EXCEPT ![1] = 88], [CanonicalWav EXCEPT ![9] = 88],
     [CanonicalWav EXCEPT ![21] = 3]}

WellFormedOutputs ==
    {WaveWrite(f[1], f[2], TargetRate, FrameBytes) :
        f \in {<<1, 2>>, <<2, 2>>, <<1, 1>>, <<3, 2>>, <<1, 3>>}}
    \cup {WaveWrite(1, 2, rate, FrameBytes) : rate \in {11025, 44100, 0}}
    \cup {WaveWrite(1, 2, TargetRate, <<>>)}
TruncatedHeaders == {Take(CanonicalWav, k) : k \in HeaderCuts}
TruncatedData == {Take(CanonicalWav, HeaderLen + 3)}
MalformedHeaders == TruncatedHeaders \cup BadTags
EngineOutputs == WellFormedOutputs \cup MalformedHeaders \cup TruncatedData

\* ------------------------------------------------------------ specifications
\* Which AudioCaptcha object each request is called on: all on one, each on
\* its own (as far as there are objects), or all but the first on a second.
InstanceMaps ==
    {[r \in Requests |-> 1], [r \in Requests |-> ((r - 1) % NumInstances) + 1],
     [r \in Requests |-> Min(r, Min(2, NumInstances))]}

\* Line 37: every instance is constructed with a lock of its own, unlocked.
PipeInit ==
    /\ lock = [i \in Instances |-> 0]
    /\ \E m \in InstanceMaps : req = [r \in Requests |-> [NewRequest EXCEPT !.inst = m[r]]]
    /\ files = [r \in Requests |-> <<>>]
    /\ call = "none"
    /\ arg = <<>>
    /\ ret = <<>>

\* One request with every input: lengths 0..MaxLen and the default, every
\* generator state, every engine outcome.
Init == PipeInit /\ rng \in RngStates

Next ==
    \/ \E length \in (0..MaxLen) \cup {DefaultLength} : Start(1, length)
    \/ Compose(1)
    \/ MkTemp(1)
    \/ Acquire(1)
    \/ \E voices \in {1, 2} : EngineInit(1, voices)
    \/ \E out \in EngineOutputs : EngineSpeak(1, <<out>>)
    \/ EngineSpeak(1, <<>>)
    \/ EngineStop(1)
    \/ \E partial \in BOOLEAN : EngineRaise(1, partial)
    \/ \E ok \in BOOLEAN : ReadFile(1, ok)
    \/ \E unlinked \in BOOLEAN : Finally(1, unlinked)
    \/ Decode(1)
    \/ ResampleStep(1)
    \/ WhiteStep(1)
    \/ HumStep(1)
    \/ CrackleStep(1)
    \/ WarbleStep(1)
    \/ Encode(1)
    \/ Package(1)

Spec == Init /\ [][Next]_vars

\* Concurrent requests, each for a text of no digits and with an
\* engine that writes a good file (of no frames), a cut one or none.
ConcOutputs == {WaveWrite(1, 2, TargetRate, <<>>), Take(CanonicalWav, 7)}
ConcInit == PipeInit /\ rng = 0

ConcNext ==
    \E r \in Requests :
        \/ Start(r, 0)
        \/ Compose(r)
        \/ MkTemp(r)
        \/ Acquire(r)
        \/ EngineInit(r, 2)
        \/ \E out \in ConcOutputs : EngineSpeak(r, <<out>>)
        \/ EngineSpeak(r, <<>>)
        \/ EngineStop(r)
        \/ \E partial \in BOOLEAN : EngineRaise(r, partial)
        \/ \E ok \in BOOLEAN : ReadFile(r, ok)
        \/ \E unlinked \in BOOLEAN : Finally(r, unlinked)
        \/ Decode(r)
        \/ ResampleStep(r)
        \/ WhiteStep(r)
        \/ HumStep(r)
        \/ CrackleStep(r)
        \/ WarbleStep(r)
        \/ Encode(r)
        \/ Package(r)

SpecConc == ConcInit /\ [][ConcNext]_vars

\* ------------------------------------------------- the stages on their own
\* A stage applied to one input: call names the stage, arg is its input and
\* ret is <<>> until it has returned, then <<its outcome>>.  No request runs.
NoPipeline ==
    /\ lock = [i \in Instances |-> 0]
    /\ req = [r \in Requests |-> NewRequest]
    /\ files = [r \in Requests |-> <<>>]
    /\ rng = 0
    /\ ret = <<>>

\* Containers of 1..MaxChannels channels and 1..MaxWidth bytes per sample,
\* holding the first k bytes of a few byte patterns.
DataSeeds == {0, 128, 255}
DataPattern(seed) == [i \in 1..MaxDataLen |-> (seed + i * 77) % 256]
\* 16-bit stereo containers of one frame, for pairs of values at the ends of
\* the range and around zero, and one of two frames.
StereoValues == {-32768, -3, -2, -1, 0, 1, 2, 32767}
StereoInputs ==
    {WaveWrite(2, 2, TargetRate, PackS16(l) \o PackS16(r)) :
        l \in StereoValues, r \in StereoValues}
      \cup {WaveWrite(2, 2, TargetRate,
                      PackS16(-1) \o PackS16(-2) \o PackS16(5) \o PackS16(5))}
DecodeInputs ==
    {WaveWrite(ch, w, TargetRate, Take(DataPattern(seed), k)) :
        ch \in 1..MaxChannels, w \in 1..MaxWidth, seed \in DataSeeds, k \in 0..MaxDataLen}
      \cup StereoInputs

DecodeInit == NoPipeline /\ call = "decode" /\ arg \in DecodeInputs
DecodeCall ==
    /\ call = "decode" /\ ret = <<>>
    /\ ret' = <<WavToSamples(arg)>>
    /\ UNCHANGED <<pipeVars, call, arg>>
DecodeNext == DecodeCall
SpecDecode == DecodeInit /\ [][DecodeNext]_vars

\* Silent buffers of the lengths at which the crackle pass changes its
\* behaviour: next to 0, to the burst lengths and to the margin.
CrackleLens ==
    (0..MaxSmallLen)
        \cup UNION {{BurstMin + d, BurstMax + d, CrackleMargin + d} : d \in (-1)..MaxExtra}

CrackleInit ==
    /\ NoPipeline /\ call = "crackle"
    /\ \E n \in CrackleLens, c \in 0..MaxSeed :
          arg = [samples |-> [k \in 1..n |-> 0], c |-> c]

\* Lines 149-154 as a whole.
CracklePass ==
    /\ call = "crackle" /\ ret = <<>>
    /\ ret' = <<[kind |-> "pass", start |-> 0, length |-> 0,
                 out |-> Crackle(arg.samples, arg.c)]>>
    /\ UNCHANGED <<pipeVars, call, arg>>

\* Lines 150-154: one burst, for a start and a length the draws can give.
CrackleOne(start, length) ==
    /\ call = "crackle" /\ ret = <<>>
    /\ ret' = <<[kind |-> "burst", start |-> start, length |-> length,
                 out |-> CrackleBurst(arg.samples, start, length, arg.c)]>>
    /\ UNCHANGED <<pipeVars, call, arg>>

CrackleNext ==
    \/ CracklePass
    \/ \E start \in 0..Max(0, Len(arg.samples) - CrackleMargin),
          length \in BurstMin..BurstMax : CrackleOne(start, length)
SpecCrackle == CrackleInit /\ [][CrackleNext]_vars

\* Buffers of up to MaxBufLen samples and rates of 1..MaxRate.
Buffer(seed, n) == [k \in 1..n |-> ((seed + k * 7919) % 65536) - 32768]
ResampleInit ==
    /\ NoPipeline /\ call = "resample"
    /\ \E n \in 0..MaxBufLen, from_rate \in 1..MaxRate, to_rate \in 1..MaxRate :
          arg = [samples |-> Buffer(n, n), from_rate |-> from_rate, to_rate |-> to_rate]
ResampleCall ==
    /\ call = "resample" /\ ret = <<>>
    /\ ret' = <<Resample(arg.samples, arg.from_rate, arg.to_rate)>>
    /\ UNCHANGED <<pipeVars, call, arg>>
ResampleNext == ResampleCall
SpecResample == ResampleInit /\ [][ResampleNext]_vars

\* Buffers of up to MaxEncLen samples at, next to and beyond the ends of
\* [-1.0, 1.0], and a few positive rates.
EncValues ==
    {-40000, -SampleOne - 1, -SampleOne, -SampleOne + 1, -16385, -1, 0, 1, 16384,
     SampleOne - 1, SampleOne, SampleOne + 1, 40000}
RECURSIVE BuffersOf(_, _)
BuffersOf(values, n) ==
    IF n = 0 THEN {<<>>}
    ELSE BuffersOf(values, n - 1)
            \cup {Append(b, v) : b \in {x \in BuffersOf(values, n - 1) : Len(x) = n - 1},
                                 v \in values}
EncRates == {1, 8000, TargetRate, 44100}

EncodeInit ==
    /\ NoPipeline /\ call = "encode"
    /\ \E b \in BuffersOf(EncValues, MaxEncLen), rate \in EncRates :
          arg = [samples |-> b, rate |-> rate]

\* _samples_to_wav(samples, rate).
EncodeCall ==
    /\ call = "encode" /\ ret = <<>>
    /\ ret' = <<SamplesToWav(arg.samples, arg.rate)>>
    /\ UNCHANGED <<pipeVars, call, arg>>

\* _wav_to_samples on the bytes _samples_to_wav returned.
DecodeBack ==
    /\ call = "encode" /\ Len(ret) = 1 /\ ret[1].err = None
    /\ ret' = Append(ret, WavToSamples(ret[1].bytes))
    /\ UNCHANGED <<pipeVars, call, arg>>

EncodeNext == EncodeCall \/ DecodeBack
SpecEncode == EncodeInit /\ [][EncodeNext]_vars

\* Requests that are all about to distort the same decoded buffer, each
\* after the caller has seeded the generator: random.seed(s) sets the state
\* of the one module-level generator every draw of the program uses.  arg[r]
\* is <<>> until request r's caller has seeded, then <<the seed>>.
DistortBuffers == {<<0>>, <<0, 16384>>, <<-32768, 100>>}
DistortInit ==
    /\ lock = [i \in Instances |-> 0]
    /\ files = [r \in Requests |-> <<>>]
    /\ rng \in RngStates
    /\ call = "distort" /\ arg = [r \in Requests |-> <<>>] /\ ret = <<>>
    /\ \E b \in DistortBuffers :
          req = [r \in Requests |->
                    [NewRequest EXCEPT !.pc = "white", !.inst = 1, !.samples = b,
                                       !.rate = TargetRate,
                                       !.stages = <<"ComposePhrase", "Synthesize", "Decode">>]]

\* The caller of request r seeds the generator with s before _add_noise runs.
Seed(r, s) ==
    /\ call = "distort" /\ req[r].pc = "white" /\ arg[r] = <<>>
    /\ rng' = s
    /\ arg' = [arg EXCEPT ![r] = <<s>>]
    /\ UNCHANGED <<lock, req, files, call, ret>>

DistortNext ==
    \E r \in Requests :
        \/ \E s \in 0..MaxSeed : Seed(r, s)
        \/ arg[r] # <<>> /\ WhiteStep(r)
        \/ HumStep(r)
        \/ CrackleStep(r)
        \/ WarbleStep(r)
SpecDistort == DistortInit /\ [][DistortNext]_vars

\* -------------------------------------------------------------- properties
InSynthesis(r) == req[r].pc \in {"init", "speak", "stop"}
AfterSynthesis(r) ==
    req[r].pc \in {"decode", "resample", "white", "hum", "crackle", "warble",
                   "encode", "package", "done", "failed"}

\* C1: at most one request at a time is inside the speech-synthesis section
\* (lines 49-63), whatever instances the requests are made through.
C1_OneSynthesisAtATime ==
    \A r1, r2 \in Requests : InSynthesis(r1) /\ InSynthesis(r2) => r1 = r2

\* C2: the lock is held only inside the synthesis section: whoever holds an
\* instance's lock is between engine init and stop on that instance, and a
\* request that is reading the file, in the finally block, in a later stage,
\* finished or failed holds no lock.
C2_LockOnlyDuringSynthesis ==
    /\ \A i \in Instances :
          lock[i] # 0 => InSynthesis(lock[i]) /\ req[lock[i]].inst = i
    /\ \A r \in Requests : ~InSynthesis(r) => \A i \in Instances : lock[i] # r

\* A synthesis failed and a later request on the same instance is inside the
\* section.
C2_Witness ==
    \E r1, r2 \in Requests :
        /\ r1 # r2 /\ req[r1].inst = req[r2].inst
        /\ req[r1].pc = "failed" /\ req[r1].err = "EngineError"
        /\ lock[req[r2].inst] = r2 /\ req[r2].pc = "speak"

\* C3: once _generate_speech_wav has returned or raised, the temporary file
\* is gone unless os.unlink failed; and the outcome is the stage's own: a
\* request that failed in this stage failed with the error of the engine or
\* of the read, and one whose read succeeded went on to decode.
C3_TempFileRemoved ==
    \A r \in Requests :
        AfterSynthesis(r) =>
            /\ files[r] = <<>> \/ req[r].unlinkFailed
            /\ req[r].pending # None <=>
                  (req[r].pc = "failed" /\ req[r].stages[Len(req[r].stages)] = "Synthesize")
            /\ req[r].pending # None => req[r].err = req[r].pending

\* The read failed on a file that existed, and the file is gone; another
\* request's unlink failed and it still went on.
C3_Witness ==
    \E r1, r2 \in Requests :
        /\ req[r1].pc = "failed" /\ req[r1].err = "OSError(read)" /\ files[r1] = <<>>
        /\ req[r2].unlinkFailed /\ req[r2].pc = "decode" /\ files[r2] # <<>>

StageIndex(name) == CHOOSE k \in 1..Len(Stages) : Stages[k] = name

\* The stages run so far are an initial run of the fixed order, each once,
\* with only Resample possibly left out.
StagesInOrder(st) ==
    /\ st # <<>> => st[1] = "ComposePhrase"
    /\ \A k \in 1..(Len(st) - 1) :
          \/ StageIndex(st[k + 1]) = StageIndex(st[k]) + 1
          \/ st[k] = "Decode" /\ st[k + 1] = "Distort"

\* C4: the stages run in the fixed order, each at most once; a request has an
\* error exactly when it has failed, a failed request has no result, a result
\* exists only when every stage has run, and a failed request takes no
\* further step.
C4_FirstFailureEnds ==
    /\ [](\A r \in Requests :
            /\ StagesInOrder(req[r].stages)
            /\ req[r].err # None <=> req[r].pc = "failed"
            /\ req[r].pc = "failed" => req[r].result = <<>>
            /\ req[r].result # <<>> =>
                  req[r].pc = "done" /\ req[r].stages[Len(req[r].stages)] = "Package")
    /\ [][\A r \in Requests : req[r].pc = "failed" => req'[r] = req[r]]_vars

\* A request failed in Resample, after Decode ran.
C4_Witness ==
    \E r \in Requests :
        /\ req[r].pc = "failed"
        /\ req[r].stages = <<"ComposePhrase", "Synthesize", "Decode", "Resample">>

\* The bytes a base64 text stands for.
B64Index(ch) == IF ch = "=" THEN 0 ELSE (CHOOSE k \in 1..64 : B64Alphabet[k] = ch) - 1
B64Decode(t) ==
    LET pad == Cardinality({j \in 1..Len(t) : t[j] = "="})
        group(g) == B64Index(t[4 * g - 3]) * 262144 + B64Index(t[4 * g - 2]) * 4096
                    + B64Index(t[4 * g - 1]) * 64 + B64Index(t[4 * g])
    IN  [i \in 1..(3 * (Len(t) \div 4) - pad) |->
            (group((i + 2) \div 3) \div Pow2(8 * ((3 - (i % 3)) % 3))) % 256]

AsciiDigits == {"0", "1", "2", "3", "4", "5", "6", "7", "8", "9"}

\* C5: a finished request returns a text of exactly `length` ASCII digits and
\* an audio string that is the data-URI prefix followed by the base64 text of
\* the encoded container, which declares 1 channel and 16-bit samples.
C5_ResultShape ==
    \A r \in Requests :
        req[r].pc = "done" =>
            LET res == req[r].result[1]
                payload == B64Decode(Tail(res.audio))
            IN  /\ Len(res.text) = req[r].length
                /\ \A k \in 1..Len(res.text) : res.text[k] \in AsciiDigits
                /\ res.audio[1] = DataUriPrefix
                /\ payload = req[r].encoded
                /\ WaveOpen(payload).err = None
                /\ WaveOpen(payload).nchannels = 1
                /\ WaveOpen(payload).sampwidth * 8 = 16

\* A default-length request finished on a stereo input at another rate, and
\* one on an 8-bit input.
C5_Witness ==
    \E r \in Requests :
        /\ req[r].pc = "done" /\ req[r].length = DefaultLength
        /\ WaveOpen(req[r].wav).nchannels = 2

\* C7: a container with a malformed header (cut short, or with a wrong tag)
\* makes the decode stage fail with the reader's error, it yields no samples,
\* and the request ends failed with that error and no result.
DecodeErrors == {"EOFError", "wave.Error", "struct.error"}
C6_RejectsMoreThanTwoChannels ==
    (call = "decode" /\ ret # <<>> /\ LE16(arg, 23) > 2) => ret[1].err # None

\* C8: the crackle pass, and each burst of it, raises nothing and writes only
\* to positions of the buffer: a burst writes exactly the positions of
\* start..start+length-1 that exist, the buffer keeps its length and every
\* other sample its value.
C8_CrackleInBounds ==
    (call = "crackle" /\ ret # <<>>) =>
        LET n == Len(arg.samples)
            out == ret[1].out
        IN  /\ out.err = None
            /\ out.touched \subseteq 0..(n - 1)
            /\ Len(out.samples) = n
            /\ ret[1].kind = "burst" =>
                  out.touched = {i \in 0..(n - 1) :
                                    ret[1].start <= i /\ i < ret[1].start + ret[1].length}
            /\ \A k \in 1..n : (k - 1) \notin out.touched => out.samples[k] = arg.samples[k]

\* A burst that would run past the end of a short buffer was cut at the end.
C8_Witness ==
    /\ call = "crackle" /\ ret # <<>> /\ ret[1].kind = "burst"
    /\ ret[1].start + ret[1].length > Len(arg.samples)
    /\ (Len(arg.samples) - 1) \in ret[1].out.touched

ExactLength(len, from_rate, to_rate) == (len * to_rate) \div from_rate
ReadsInside(reads, len) == \A k \in 1..Len(reads) : reads[k] \subseteq 0..(len - 1)

\* C9 as stated: for different rates the output has exactly
\* floor(len * to_rate / from_rate) samples and no read leaves the buffer.
C9_ExactDuration ==
    (call = "resample" /\ ret # <<>> /\ arg.from_rate # arg.to_rate) =>
        /\ Len(ret[1].samples) = ExactLength(Len(arg.samples), arg.from_rate, arg.to_rate)
        /\ ReadsInside(ret[1].reads, Len(arg.samples))

\* C9 amended: for different rates the output has floor(len * to_rate /
\* from_rate) samples or one fewer, each output sample reads one or two
\* positions, and no read leaves the buffer.
C9_DurationWithinOne ==
    (call = "resample" /\ ret # <<>> /\ arg.from_rate # arg.to_rate) =>
        LET exact == ExactLength(Len(arg.samples), arg.from_rate, arg.to_rate)
        IN  /\ ret[1].err = None
            /\ Len(ret[1].samples) \in {exact - 1, exact}
            /\ Len(ret[1].reads) = Len(ret[1].samples)
            /\ ReadsInside(ret[1].reads, Len(arg.samples))
            /\ \A k \in 1..Len(ret[1].reads) : ret[1].reads[k] # {}

\* A resampling that came out one sample short of the exact length.
C9_Witness ==
    /\ call = "resample" /\ ret # <<>> /\ arg.from_rate # arg.to_rate
    /\ Len(ret[1].samples) + 1
          = ExactLength(Len(arg.samples), arg.from_rate, arg.to_rate)
    /\ Len(ret[1].samples) > 0

\* C10: resampling to the same rate returns the input buffer unchanged.
C10_EqualRatesIdentity ==
    (call = "resample" /\ ret # <<>> /\ arg.from_rate = arg.to_rate) =>
        ret[1].err = None /\ ret[1].samples = arg.samples

\* A buffer of several samples was resampled to its own rate.
C10_Witness ==
    /\ call = "resample" /\ ret # <<>> /\ arg.from_rate = arg.to_rate
    /\ Len(arg.samples) > 1

\* C11: two runs of distort on the same input buffer, each begun with the
\* generator seeded with the same value, end with the same samples, whatever
\* other requests draw meanwhile.
C11_SeededDistortDeterministic ==
    call = "distort" =>
        \A r1, r2 \in Requests :
            (req[r1].pc = "encode" /\ req[r2].pc = "encode" /\ arg[r1] = arg[r2])
                => req[r1].samples = req[r2].samples

Clamped(x) == IF x > SampleOne THEN SampleOne ELSE IF x < -SampleOne THEN -SampleOne ELSE x
\* v is x * 32767 (x in 1/32768 steps) with its fraction dropped.
IsTruncated(v, x) ==
    IF x >= 0
    THEN v >= 0 /\ v * SampleOne <= x * QuantScale /\ x * QuantScale < (v + 1) * SampleOne
    ELSE v <= 0 /\ v * SampleOne >= x * QuantScale /\ x * QuantScale > (v - 1) * SampleOne
\* The 16-bit value at frame i of a container's data, read byte by byte.
FrameValue(w, i) ==
    LET u == w.data[2 * i - 1] + 256 * w.data[2 * i]
    IN  IF u >= 32768 THEN u - 65536 ELSE u

\* C12: _samples_to_wav never fails; the container it returns declares 1
\* channel, 2 bytes per sample and the rate given, holds one frame per input
\* sample, and frame i is the sample clamped to [-1.0, 1.0], times 32767,
\* truncated: a value of -32767..32767.
C12_EncodeClampsAndFits ==
    (call = "encode" /\ ret # <<>>) =>
        /\ ret[1].err = None
        /\ LET w == WaveOpen(ret[1].bytes)
           IN  /\ w.err = None
               /\ w.nchannels = 1 /\ w.sampwidth = 2 /\ w.framerate = arg.rate
               /\ w.nframes = Len(arg.samples)
               /\ Len(w.data) = 2 * Len(arg.samples)
               /\ \A i \in 1..Len(arg.samples) :
                     /\ IsTruncated(FrameValue(w, i), Clamped(arg.samples[i]))
                     /\ -QuantScale <= FrameValue(w, i) /\ FrameValue(w, i) <= QuantScale

\* A buffer with a sample above 1.0 and one below -1.0 was encoded.
C12_Witness ==
    /\ call = "encode" /\ ret # <<>>
    /\ \E i, j \in 1..Len(arg.samples) :
          arg.samples[i] > SampleOne /\ arg.samples[j] < -SampleOne

Representable(samples) ==
    \A i \in 1..Len(samples) : -SampleOne <= samples[i] /\ samples[i] <= SampleOne
Distance(a, b) == IF a >= b THEN a - b ELSE b - a

\* C13: a buffer of samples k/32768 with -32768 <= k <= 32768, encoded and
\* decoded again, comes back with the same length and rate and with every
\* sample at most 1/32768 from the original.
C13_RoundTripWithinOneStep ==
    (call = "encode" /\ Len(ret) = 2 /\ Representable(arg.samples)) =>
        /\ ret[2].err = None
        /\ ret[2].rate = arg.rate
        /\ Len(ret[2].samples) = Len(arg.samples)
        /\ \A i \in 1..Len(arg.samples) :
              Distance(ret[2].samples[i], arg.samples[i]) <= 1

\* A buffer holding 1.0 and a negative sample made the round trip, and a
\* sample came back exactly one step off.
C13_Witness ==
    /\ call = "encode" /\ Len(ret) = 2 /\ Representable(arg.samples)
    /\ \E i, j \in 1..Len(arg.samples) :
          /\ arg.samples[i] = SampleOne /\ arg.samples[j] < 0
          /\ Distance(ret[2].samples[i], arg.samples[i]) = 1

\* The left (side 0) and right (side 1) value of frame i of a 16-bit stereo
\* container with the 44-byte header.
StereoSample(b, i, side) == Signed16(LE16(b, HeaderLen + 4 * i - 3 + 2 * side))

\* C14: a 16-bit 2-channel container of whole frames decodes to one sample
\* per frame, the average of left and right rounded toward zero.
C14_StereoTruncatingAverage ==
    (/\ call = "decode" /\ ret # <<>>
     /\ LE16(arg, 23) = 2 /\ LE16(arg, 35) = 16
     /\ (Len(arg) - HeaderLen) % 4 = 0) =>
        /\ ret[1].err = None
        /\ Len(ret[1].samples) = (Len(arg) - HeaderLen) \div 4
        /\ \A i \in 1..Len(ret[1].samples) :
              ret[1].samples[i]
                  = TruncDiv(StereoSample(arg, i, 0) + StereoSample(arg, i, 1), 2)

====
